---- MODULE Spec2Model ----
(***************************************************************************)
(* Model of the halfspace filter pipeline (post.py), the trajectory        *)
(* optimizer and normal orientation (active/simulation_utils.py, utils.py) *)
(* and the ground-truth calibrator (run_tests.py).                         *)
(*                                                                         *)
(* Vectors are tuples of integers; python indices are kept 0-based, so     *)
(* normals[i] of the code is normals[i + 1] here.  Floating thresholds are *)
(* exact rationals <<num, den>>.                                           *)
(***************************************************************************)
EXTENDS Integers, Sequences, FiniteSets, TLC

VARIABLES
    \* ---- filter_halfplanes (post.py) ----
    normals,                    \* argument: the original normal array
    rewards,                    \* argument / local: NoneVal or Some(sequence of rewards)
    deterministic,              \* argument
    n_samples,                  \* argument: NoneVal or Some(count)
    noise_threshold,            \* argument, <<num, den>>
    epsilon,                    \* argument
    delta,                      \* argument, <<num, den>>
    skip_remove_duplicates,     \* argument
    skip_noise_filtering,       \* argument
    skip_epsilon_filtering,     \* argument
    skip_redundancy_filtering,  \* argument
    filtered_normals,           \* local
    indices,                    \* local, 0-based indices into normals
    fpc,                        \* the stage filter_halfplanes is about to run
    sampler_calls,              \* how often sample() was invoked
    \* ---- TrajOptimizer (active/simulation_utils.py) ----
    n_opt_iters,                \* self.n_opt_iters
    n_seeds,                    \* len(self.init_controls)
    cache,                      \* self.cache: key -> [plan, loss]
    car_main,                   \* self.main_car.init_state
    car_other,                  \* self.other_car.init_state
    opc,                        \* where make_opt_traj stands
    o_key,                      \* (reward.tobytes(), start_state.tobytes()) of the call
    o_args,                     \* the arguments of the call
    o_i,                        \* i of the loop over self.init_controls
    o_k,                        \* optimizer steps taken from the current seed
    best_loss,                  \* local
    best_plan,                  \* local: NoneVal while unbound
    best_init,                  \* local
    o_result,                   \* the value the call returned
    calls,                      \* number of calls of make_opt_traj so far
    opt_steps,                  \* self.optim.minimize calls made by the current call
    loss_evals,                 \* loss() calls made by the current call
    losses,                     \* the post-optimization losses of the running call, per seed
    \* ---- orient_normals (active/simulation_utils.py, utils.py) ----
    or_impl,                    \* which orient_normals is called
    or_normals,                 \* argument normals
    or_preferences,             \* argument preferences
    or_use_equiv,               \* argument use_equiv
    or_once,                    \* orient_normals(n, p)
    or_twice,                   \* orient_normals(orient_normals(n, p), p)
    or_squared,                 \* orient_normals(n, p * p)
    or_pc,
    \* ---- find_reward_boundary (run_tests.py) ----
    b_args,                     \* arguments: normals, n_rewards, reward, epsilon
    b_normals,                  \* local normals, restricted at lines 73 and 83
    b_rewards,                  \* local rewards
    b_alignment,                \* local ground_truth_alignment
    cov_exp,                    \* local cov, as the exponent of 1.1
    b_pc,
    \* ---- eval_test, run_test, run_human_experiment (run_tests.py) ----
    t_call,                     \* which function is called
    t_normals,                  \* argument normals
    t_rewards,                  \* argument rewards / test_rewards
    t_aligned,                  \* argument aligned
    t_use_equiv,                \* argument use_equiv
    t_n_human_samples,          \* argument n_human_samples
    t_passed,                   \* normals given to factory.filter_halfplanes
    t_indices,                  \* indices returned by factory.filter_halfplanes
    t_results,                  \* predictions of run_test / np.ones
    t_confusion,                \* the matrix eval_test returns
    t_pc,
    \* ---- gt, human (run_tests.py): a parameter sweep over one outdir ----
    s_cmd,                      \* "gt" or "human"
    s_epsilons,                 \* argument epsilons
    s_human_samples,            \* argument human_samples
    s_overwrite,                \* argument overwrite
    minimal_tests,              \* local: experiment -> indices
    second_map,                 \* local: confusions (gt) or results (human)
    experiments,                \* the experiments make_experiments yields, in order
    task,                       \* per dispatched task: "running", "done" or "failed"
    disk_tests,                 \* the pickled map at test_path: NoneVal while absent
    disk_second,                \* the pickled map at confusion_path / test_results_path
    sweeps,                     \* number of sweeps started
    s_pc

filterVars == <<normals, rewards, deterministic, n_samples, noise_threshold, epsilon,
                delta, skip_remove_duplicates, skip_noise_filtering,
                skip_epsilon_filtering, skip_redundancy_filtering,
                filtered_normals, indices, fpc, sampler_calls>>

optVars == <<n_opt_iters, n_seeds, cache, car_main, car_other, opc, o_key, o_args, o_i, o_k,
             best_loss, best_plan, best_init, o_result, calls, opt_steps, loss_evals,
             losses>>

orientVars == <<or_impl, or_normals, or_preferences, or_use_equiv, or_once, or_twice,
                or_squared, or_pc>>

boundaryVars == <<b_args, b_normals, b_rewards, b_alignment, cov_exp, b_pc>>

testVars == <<t_call, t_normals, t_rewards, t_aligned, t_use_equiv,
              t_n_human_samples, t_passed, t_indices, t_results, t_confusion, t_pc>>

sweepVars == <<s_cmd, s_epsilons, s_human_samples, s_overwrite, minimal_tests, second_map,
               experiments, task, disk_tests, disk_second, sweeps, s_pc>>

vars == <<filterVars, optVars, orientVars, boundaryVars, testVars, sweepVars>>

\* the variables each component leaves alone
notFilter == <<optVars, orientVars, boundaryVars, testVars, sweepVars>>
notOpt == <<filterVars, orientVars, boundaryVars, testVars, sweepVars>>
notOrient == <<filterVars, optVars, boundaryVars, testVars, sweepVars>>
notBoundary == <<filterVars, optVars, orientVars, testVars, sweepVars>>
notTest == <<filterVars, optVars, orientVars, boundaryVars, sweepVars>>
notSweep == <<filterVars, optVars, orientVars, boundaryVars, testVars>>

\* An Optional[...] value: NoneVal, or Some(x) with Val(Some(x)) = x
NoneVal == <<>>
Some(x) == <<x>>
Val(o) == o[1]

\* ------------------------------------------------------------------------
\* Bounds of the model
\* ------------------------------------------------------------------------
MaxNormals == 2
MaxRewards == 2
MaxSamples == 1
MaxPlannerIters == 2
MaxExtraSeeds == 0
MaxCalls == 3
MaxOrientRows == 2
MaxBoundaryNormals == 2
MaxNRewards == 2
MaxCovExp == 2
MaxTestNormals == 2
MaxTestRewards == 2
MaxSweeps == 3

\* ------------------------------------------------------------------------
\* Program constants
\* ------------------------------------------------------------------------
N_FEATURES == 4
\* precision=0.0001 of remove_duplicates, as PrecisionNum / PrecisionDen
PrecisionNum == 1
PrecisionDen == 10000
\* the three hand-seeded rows of self.init_controls
N_BASE_SEEDS == 3
\* the band of find_reward_boundary, 0.45 and 0.55, in hundredths
BAND_LOW == 45
BAND_HIGH == 55

\* ------------------------------------------------------------------------
\* Input domains
\* ------------------------------------------------------------------------
NormalVecs == { <<1, 0, 0, 0>>, <<2, 0, 0, 0>>, <<1, 1, 0, 0>> }
RewardVecs == { <<1, 0, 0, 0>>, <<0, 1, 0, 0>> }
Thresholds == { <<1, 2>>, <<7, 10>> }
Epsilons   == { 0, 1 }
Deltas     == { <<1, 20>>, <<1, 2>> }

SeqsUpTo(S, n) == UNION { [1..k -> S] : k \in 0..n }

\* ------------------------------------------------------------------------
\* numpy / scipy helpers
\* ------------------------------------------------------------------------
RECURSIVE DotFrom(_, _, _)
DotFrom(u, v, k) == IF k > Len(u) THEN 0 ELSE u[k] * v[k] + DotFrom(u, v, k + 1)

\* np.dot of two vectors
Dot(u, v) == DotFrom(u, v, 1)

\* distance.cosine(u, v) < precision, i.e. 1 - u.v / (|u||v|) < precision.
\* A zero vector makes the distance nan, and nan < precision is False.
CosineBelow(u, v, pnum, pden) ==
    LET uv == Dot(u, v)
        uu == Dot(u, u)
        vv == Dot(v, v)
    IN  /\ uu * vv > 0
        /\ uv > 0
        /\ uv * uv * pden * pden > (pden - pnum) * (pden - pnum) * uu * vv

\* normals[indices]
Gather(arr, idx) == [k \in 1..Len(idx) |-> arr[idx[k] + 1]]

\* the first len(indices) rows of the array, whatever the indices say
TakeLeadingRows(arr, idx) == [k \in 1..Len(idx) |-> arr[k]]

\* normals[indices].reshape(-1, normals.shape[1]) of lines 98 and 122
TakeRows(arr, idx) == [k \in 1..Len(idx) |-> arr[idx[k] + 1]]

\* np.array(range(n))
Range(n) == [k \in 1..n |-> k - 1]

RECURSIVE MaskFrom(_, _, _)
MaskFrom(seq, mask, k) ==
    IF k > Len(seq) THEN <<>>
    ELSE IF mask[k] THEN <<seq[k]>> \o MaskFrom(seq, mask, k + 1)
         ELSE MaskFrom(seq, mask, k + 1)

\* indices[filtered_indices] with a boolean mask
SelectIndices(idx, mask) == MaskFrom(idx, mask, 1)

\* number of rewards r with np.dot(r, normal) > margin
CountAbove(rs, normal, margin) == Cardinality({ k \in 1..Len(rs) : Dot(rs[k], normal) > margin })

\* ------------------------------------------------------------------------
\* post.py: remove_duplicates
\* ------------------------------------------------------------------------
\* The loop of remove_duplicates.  The inner loop breaks at the first accepted
\* normal within the precision; lines 40-41 follow the inner loop without an
\* else clause, so they run whether or not the inner loop broke.
RECURSIVE RemoveDuplicatesFrom(_, _, _, _, _)
RemoveDuplicatesFrom(ns, i, out, idx, prec) ==
    IF i > Len(ns) THEN [out |-> out, indices |-> idx]
    ELSE LET broke == \E a \in 1..Len(out) : CosineBelow(ns[i], out[a], prec[1], prec[2])
         IN  IF broke
             THEN RemoveDuplicatesFrom(ns, i + 1, Append(out, ns[i]), Append(idx, i - 1), prec)
             ELSE RemoveDuplicatesFrom(ns, i + 1, Append(out, ns[i]), Append(idx, i - 1), prec)

remove_duplicates(ns) ==
    RemoveDuplicatesFrom(ns, 1, <<>>, <<>>, <<PrecisionNum, PrecisionDen>>)

\* ------------------------------------------------------------------------
\* post.py: sample, and the external linear-programming routine
\* ------------------------------------------------------------------------
\* sample(...): n rewards drawn by the posterior sampler
Sample(n) == [1..n -> RewardVecs]

\* ascending sequences of positions 0..n-1
KeptIndices(n) == { MaskFrom(Range(n), m, 1) : m \in [1..n -> BOOLEAN] }

\* remove_redundant_constraints(filtered_normals): the kept positions and the
\* rows returned for them.  The routine is external; besides the rows at the
\* kept positions the model admits a result whose rows are the whole input,
\* which the assertion at line 134 has to catch.
RemoveRedundantResults(fn) ==
    { [normals |-> Gather(fn, ci), constraint_indices |-> ci] : ci \in KeptIndices(Len(fn)) }
    \cup { [normals |-> fn, constraint_indices |-> ci] : ci \in KeptIndices(Len(fn)) }

\* all([row in filtered_normals for row in normals[indices]]): numpy's `in`
\* is (filtered_normals == row).any()
RowsIn(rows, fn) ==
    \A k \in 1..Len(rows) : \E j \in 1..Len(fn) : \E c \in 1..Len(rows[k]) : fn[j][c] = rows[k][c]

\* the noise mask with >= in place of >
NoiseMaskAtLeast(rs, fn, thr) ==
    [j \in 1..Len(fn) |-> CountAbove(rs, fn[j], 0) * thr[2] >= thr[1] * Len(rs)]

\* np.mean(np.dot(rewards, filtered_normals.T) > 0, axis=0) > noise_threshold
NoiseMask(rs, fn, thr) ==
    [j \in 1..Len(fn) |-> CountAbove(rs, fn[j], 0) * thr[2] > thr[1] * Len(rs)]

\* the epsilon mask with >= 1 - delta in place of > 1 - delta
EpsilonMaskAtLeast(rs, fn, eps, dl) ==
    [j \in 1..Len(fn) |-> CountAbove(rs, fn[j], eps) * dl[2] >= (dl[2] - dl[1]) * Len(rs)]

\* the epsilon mask counting the opinions below the margin
EpsilonMaskBelow(rs, fn, eps, dl) ==
    [j \in 1..Len(fn) |->
        Cardinality({ k \in 1..Len(rs) : Dot(rs[k], fn[j]) < eps }) * dl[2]
            > (dl[2] - dl[1]) * Len(rs)]

\* np.mean(opinions > epsilon, axis=1) > 1 - delta
EpsilonMask(rs, fn, eps, dl) ==
    [j \in 1..Len(fn) |-> CountAbove(rs, fn[j], eps) * dl[2] > (dl[2] - dl[1]) * Len(rs)]

\* ------------------------------------------------------------------------
\* post.py: filter_halfplanes, one action per stage
\* ------------------------------------------------------------------------
\* the precondition with the deterministic check left out
MissingCountOnly(rw, det, ns) == rw = NoneVal /\ ns = NoneVal

\* lines 77-81: rewards is None and (deterministic or n_samples is None)
\* raises ValueError
MissingRewards(rw, det, ns) == rw = NoneVal /\ (det \/ ns = NoneVal)

filterArgs == <<normals, deterministic, n_samples, noise_threshold, epsilon, delta,
                skip_remove_duplicates, skip_noise_filtering,
                skip_epsilon_filtering, skip_redundancy_filtering>>

FilterInit ==
    /\ normals \in SeqsUpTo(NormalVecs, MaxNormals)
    /\ rewards \in {NoneVal} \cup { Some(rs) : rs \in SeqsUpTo(RewardVecs, MaxRewards) }
    /\ deterministic \in BOOLEAN
    /\ n_samples \in {NoneVal} \cup { Some(n) : n \in 1..MaxSamples }
    /\ noise_threshold \in Thresholds
    /\ epsilon \in Epsilons
    /\ delta \in Deltas
    /\ skip_remove_duplicates \in BOOLEAN
    /\ skip_noise_filtering \in BOOLEAN
    /\ skip_epsilon_filtering \in BOOLEAN
    /\ skip_redundancy_filtering \in BOOLEAN
    /\ filtered_normals = normals
    /\ indices = Range(Len(normals))
    /\ fpc = "dedup"
    /\ sampler_calls = 0

\* lines 69-74
DedupStage ==
    /\ fpc = "dedup"
    /\ IF skip_remove_duplicates
       THEN UNCHANGED <<filtered_normals, indices>>
       ELSE LET r == remove_duplicates(normals)
            IN  /\ filtered_normals' = r.out
                /\ indices' = r.indices
    /\ fpc' = IF Gather(normals, indices') = filtered_normals' THEN "noise" ELSE "raised"
    /\ UNCHANGED <<filterArgs, rewards, sampler_calls, notFilter>>

\* lines 76-100
NoiseStage ==
    /\ fpc = "noise"
    /\ IF skip_noise_filtering
       THEN /\ fpc' = "epsilon"
            /\ UNCHANGED <<rewards, sampler_calls, filtered_normals, indices>>
       ELSE IF MissingRewards(rewards, deterministic, n_samples)
       THEN /\ fpc' = "raised"
            /\ UNCHANGED <<rewards, sampler_calls, filtered_normals, indices>>
       ELSE /\ IF rewards = NoneVal
               THEN \E rs \in Sample(Val(n_samples)) : rewards' = Some(rs)
               ELSE rewards' = rewards
            /\ sampler_calls' = IF rewards = NoneVal THEN sampler_calls + 1 ELSE sampler_calls
            /\ indices' = SelectIndices(indices, NoiseMask(Val(rewards'), filtered_normals, noise_threshold))
            /\ IF RowsIn(Gather(normals, indices'), filtered_normals)
               THEN /\ filtered_normals' = TakeRows(normals, indices')
                    /\ fpc' = "epsilon"
               ELSE /\ filtered_normals' = filtered_normals
                    /\ fpc' = "raised"
    /\ UNCHANGED <<filterArgs, notFilter>>

\* lines 102-124
EpsilonStage ==
    /\ fpc = "epsilon"
    /\ IF skip_epsilon_filtering \/ Len(filtered_normals) = 0
       THEN /\ fpc' = "redundancy"
            /\ UNCHANGED <<rewards, sampler_calls, filtered_normals, indices>>
       ELSE /\ IF ~deterministic /\ n_samples # NoneVal
               THEN /\ \E rs \in Sample(Val(n_samples)) : rewards' = Some(rs)
                    /\ sampler_calls' = sampler_calls + 1
               ELSE UNCHANGED <<rewards, sampler_calls>>
            /\ IF rewards' = NoneVal
               THEN \* np.dot(None, ...) raises TypeError
                    /\ fpc' = "raised"
                    /\ UNCHANGED <<filtered_normals, indices>>
               ELSE /\ indices' = SelectIndices(indices, EpsilonMask(Val(rewards'), filtered_normals, epsilon, delta))
                    /\ IF RowsIn(Gather(normals, indices'), filtered_normals)
                       THEN /\ filtered_normals' = TakeRows(normals, indices')
                            /\ fpc' = "redundancy"
                       ELSE /\ filtered_normals' = filtered_normals
                            /\ fpc' = "raised"
    /\ UNCHANGED <<filterArgs, notFilter>>

\* lines 126-138
RedundancyStage ==
    /\ fpc = "redundancy"
    /\ IF skip_redundancy_filtering \/ Len(filtered_normals) = 0
       THEN /\ fpc' = "returned"
            /\ UNCHANGED <<filtered_normals, indices>>
       ELSE \E res \in RemoveRedundantResults(filtered_normals) :
               /\ filtered_normals' = res.normals
               /\ indices' = Gather(indices, res.constraint_indices)
               /\ fpc' = IF Gather(normals, indices') = filtered_normals'
                         THEN "returned" ELSE "raised"
    /\ UNCHANGED <<filterArgs, rewards, sampler_calls, notFilter>>

\* filter_halfplanes has not been called
IdleFilter ==
    /\ normals = <<>>
    /\ rewards = NoneVal
    /\ deterministic = FALSE
    /\ n_samples = NoneVal
    /\ noise_threshold = <<7, 10>>
    /\ epsilon = 0
    /\ delta = <<1, 20>>
    /\ skip_remove_duplicates = FALSE
    /\ skip_noise_filtering = FALSE
    /\ skip_epsilon_filtering = FALSE
    /\ skip_redundancy_filtering = FALSE
    /\ filtered_normals = <<>>
    /\ indices = <<>>
    /\ fpc = "idle"
    /\ sampler_calls = 0

NextFilter == DedupStage \/ NoiseStage \/ EpsilonStage \/ RedundancyStage

\* ------------------------------------------------------------------------
\* Properties of remove_duplicates and filter_halfplanes
\* ------------------------------------------------------------------------
\* positions of ns that a first-occurrence-wins deduplication accepts
RECURSIVE AcceptedFrom(_, _, _)
AcceptedFrom(ns, i, acc) ==
    IF i > Len(ns) THEN acc
    ELSE IF \E a \in 1..Len(acc) : CosineBelow(ns[i], ns[acc[a] + 1], PrecisionNum, PrecisionDen)
         THEN AcceptedFrom(ns, i + 1, acc)
         ELSE AcceptedFrom(ns, i + 1, Append(acc, i - 1))

DedupRan == fpc = "noise" /\ ~skip_remove_duplicates

\* C1: remove_duplicates drops every candidate within the precision of an
\* earlier accepted normal, keeps first occurrences in input order, and so
\* reduces N >= 2 identical normals to one normal with indices [0].
C1_DedupDropsClose ==
    DedupRan =>
        /\ indices = AcceptedFrom(normals, 1, <<>>)
        /\ filtered_normals = [k \in 1..Len(indices) |-> normals[indices[k] + 1]]
        /\ (Len(normals) >= 2 /\ (\A k \in 1..Len(normals) : normals[k] = normals[1]))
               => (Len(filtered_normals) = 1 /\ indices = <<0>>)

\* filtered_normals equals normals[indices], element for element
Consistent ==
    /\ Len(filtered_normals) = Len(indices)
    /\ \A k \in 1..Len(indices) :
          /\ indices[k] \in 0..(Len(normals) - 1)
          /\ filtered_normals[k] = normals[indices[k] + 1]

StageSkipped ==
    \/ fpc = "dedup" /\ skip_remove_duplicates
    \/ fpc = "noise" /\ skip_noise_filtering
    \/ fpc = "epsilon" /\ skip_epsilon_filtering
    \/ fpc = "redundancy" /\ skip_redundancy_filtering

AllSkipped ==
    /\ skip_remove_duplicates
    /\ skip_noise_filtering
    /\ skip_epsilon_filtering
    /\ skip_redundancy_filtering

ConsistentWhileRunning ==
    /\ fpc # "raised" => Consistent
    /\ (fpc = "returned" /\ AllSkipped) =>
           (filtered_normals = normals /\ indices = [k \in 1..Len(normals) |-> k - 1])

\* C2: after every stage that runs and at return filtered_normals equals
\* normals[indices]; a skipped stage leaves (filtered_normals, indices)
\* unchanged, and with all four stages skipped the input comes back with
\* indices 0..N-1.
C2_NormalsMatchIndices ==
    /\ []ConsistentWhileRunning
    /\ [][StageSkipped => (filtered_normals' = filtered_normals /\ indices' = indices
                            /\ fpc' # "raised")]_vars

\* a run that returned after noise and epsilon filtering dropped an earlier
\* normal and kept a later one
C2_Witness ==
    /\ fpc = "returned"
    /\ ~skip_remove_duplicates
    /\ ~skip_noise_filtering
    /\ ~skip_epsilon_filtering
    /\ ~skip_redundancy_filtering
    /\ Len(indices) > 0
    /\ indices[1] > 0

\* positions of the normals entering the noise stage whose fraction of
\* rewards with a strictly positive dot product is strictly above the threshold
NoiseSurvivors(rs) ==
    { j \in 1..Len(filtered_normals) :
        Cardinality({ r \in 1..Len(rs) : Dot(rs[r], filtered_normals[j]) > 0 }) * noise_threshold[2]
            > noise_threshold[1] * Len(rs) }

NoiseRan == fpc = "noise" /\ ~skip_noise_filtering /\ fpc' = "epsilon"

\* C10: a normal entering the noise stage survives iff the fraction of rewards
\* with a strictly positive dot product is strictly greater than
\* noise_threshold; survivors keep their order and their original indices.
C10_NoiseSurvival ==
    [][NoiseRan =>
        LET keep == NoiseSurvivors(Val(rewards'))
        IN  /\ Len(indices') = Cardinality(keep)
            /\ Len(filtered_normals') = Cardinality(keep)
            /\ \A j \in keep :
                  LET k == Cardinality({ j2 \in keep : j2 <= j })
                  IN  /\ indices'[k] = indices[j]
                      /\ filtered_normals'[k] = filtered_normals[j]]_vars

\* the noise stage ran, dropped a normal and kept another
C10_Witness ==
    /\ fpc = "epsilon"
    /\ ~skip_noise_filtering
    /\ Len(indices) > 0
    /\ Len(indices) < Len(normals)

\* positions of the normals entering the epsilon stage whose fraction of
\* rewards with a dot product strictly above epsilon is strictly above 1 - delta
EpsilonSurvivors(rs) ==
    { j \in 1..Len(filtered_normals) :
        Cardinality({ r \in 1..Len(rs) : Dot(rs[r], filtered_normals[j]) > epsilon }) * delta[2]
            > (delta[2] - delta[1]) * Len(rs) }

EpsilonRan ==
    /\ fpc = "epsilon"
    /\ ~skip_epsilon_filtering
    /\ Len(filtered_normals) > 0
    /\ fpc' = "redundancy"

EpsilonEntersEmpty == fpc = "epsilon" /\ Len(filtered_normals) = 0

\* C11: a normal entering the epsilon-gap stage survives iff the fraction of
\* reward samples whose dot product with it exceeds epsilon is strictly
\* greater than 1 - delta; when the set entering the stage is empty the stage
\* does not run: no sampling, no change to normals or indices.
C11_EpsilonSurvival ==
    [][/\ EpsilonRan =>
            LET keep == EpsilonSurvivors(Val(rewards'))
            IN  /\ Len(indices') = Cardinality(keep)
                /\ Len(filtered_normals') = Cardinality(keep)
                /\ \A j \in keep :
                      LET k == Cardinality({ j2 \in keep : j2 <= j })
                      IN  /\ indices'[k] = indices[j]
                          /\ filtered_normals'[k] = filtered_normals[j]
       /\ EpsilonEntersEmpty =>
            /\ sampler_calls' = sampler_calls
            /\ rewards' = rewards
            /\ filtered_normals' = filtered_normals
            /\ indices' = indices
            /\ fpc' = "redundancy"]_vars

\* the epsilon stage alone ran on two normals, dropped one and kept the other
C11_Witness ==
    /\ fpc = "redundancy"
    /\ skip_remove_duplicates
    /\ skip_noise_filtering
    /\ ~skip_epsilon_filtering
    /\ Len(normals) = 2
    /\ Len(indices) = 1

\* the margins the stage is compared at
EpsilonGrid == (-1)..2

\* original indices of the normals entering the stage that the stage's mask
\* keeps at margin eps, on the rewards rs
SurvivorsAt(rs, eps) ==
    { indices[j] : j \in { j \in 1..Len(filtered_normals) :
                             EpsilonMask(rs, filtered_normals, eps, delta)[j] } }

\* C12: with the reward samples, delta and the entering normals fixed, the
\* normals surviving the epsilon-gap stage at a larger epsilon are a subset of
\* those surviving at a smaller one; the stage's own result is the set at its
\* epsilon.
C12_EpsilonMonotonic ==
    [][EpsilonRan =>
        LET rs == Val(rewards')
        IN  /\ { indices'[k] : k \in 1..Len(indices') } = SurvivorsAt(rs, epsilon)
            /\ \A e1, e2 \in EpsilonGrid :
                  e1 <= e2 =>
                    /\ SurvivorsAt(rs, e2) \subseteq SurvivorsAt(rs, e1)
                    /\ Cardinality(SurvivorsAt(rs, e2)) <= Cardinality(SurvivorsAt(rs, e1))]_vars

\* the stage ran at epsilon = 1 and kept strictly fewer normals than the same
\* rewards keep at epsilon = 0
C12_Witness ==
    /\ fpc = "redundancy"
    /\ skip_remove_duplicates
    /\ skip_noise_filtering
    /\ ~skip_epsilon_filtering
    /\ epsilon = 1
    /\ rewards # NoneVal
    /\ Len(indices) <
         Cardinality({ j \in 1..Len(normals) :
            Cardinality({ r \in 1..Len(Val(rewards)) : Dot(Val(rewards)[r], normals[j]) > 0 }) * delta[2]
                > (delta[2] - delta[1]) * Len(Val(rewards)) })

NoiseWithoutRewards ==
    /\ fpc = "noise"
    /\ ~skip_noise_filtering
    /\ rewards = NoneVal
    /\ (deterministic \/ n_samples = NoneVal)

\* C13: with noise filtering not skipped and no rewards supplied,
\* filter_halfplanes fails before any noise or epsilon filtering if
\* deterministic is true, and also if n_samples is not given; the sampler is
\* not invoked, and nothing runs after the failure.
C13_MissingRewardsFail ==
    [][/\ NoiseWithoutRewards =>
            /\ fpc' = "raised"
            /\ sampler_calls = 0
            /\ sampler_calls' = 0
            /\ rewards' = NoneVal
            /\ filtered_normals' = filtered_normals
            /\ indices' = indices
       /\ fpc # "raised"]_vars

\* deterministic mode with a sample count but no rewards has failed
C13_Witness ==
    /\ fpc = "raised"
    /\ ~skip_noise_filtering
    /\ rewards = NoneVal
    /\ deterministic
    /\ n_samples # NoneVal
    /\ sampler_calls = 0
    /\ Len(normals) > 0

\* the rewards in hand are the caller's: no sample() call has produced any
RewardsSupplied == rewards # NoneVal /\ sampler_calls = 0

\* C18: when the caller supplies rewards, the noise stage and the epsilon-gap
\* stage use exactly those rewards: the sampler is never invoked and the
\* rewards are never replaced, whatever deterministic and n_samples are.
C18_SuppliedRewardsKept ==
    [][RewardsSupplied => (rewards' = rewards /\ sampler_calls' = 0)]_vars

\* ------------------------------------------------------------------------
\* active/simulation_utils.py: TrajOptimizer
\* ------------------------------------------------------------------------
\* A numpy array is its shape and its flat data; tobytes() is the flat data only.
Array(shape, data) == [shape |-> shape, data |-> data]
tobytes(a) == a.data

\* a loss is finite, +inf or nan
Fin(x) == <<"fin", x>>
Inf == <<"inf", 0>>
NaN == <<"nan", 0>>
LossValues == { Fin(1), Fin(2), Inf, NaN }

\* a <= b on losses, False when either is nan
LossAtMost(a, b) ==
    /\ a[1] # "nan"
    /\ b[1] # "nan"
    /\ \/ b[1] = "inf"
       \/ a[1] = "fin" /\ b[1] = "fin" /\ a[2] <= b[2]

\* current_loss < best_loss: False when either is nan
LossLess(a, b) ==
    /\ a[1] # "nan"
    /\ b[1] # "nan"
    /\ \/ a[1] = "fin" /\ b[1] = "inf"
       \/ a[1] = "fin" /\ b[1] = "fin" /\ a[2] < b[2]

RewardArgs == { Array(<<4>>, <<1, 0, 0, 0>>), Array(<<4>>, <<0, 1, 0, 0>>) }
\* init_state of main_car and other_car after construction
DefaultMain == <<0, -3, 1, 4>>
DefaultOther == <<0, 0, 1, 4>>
OtherStart == <<1, 0, 1, 4>>
StartArgs ==
    { NoneVal,
      Some(Array(<<2, 4>>, DefaultMain \o DefaultOther)),
      Some(Array(<<2, 4>>, DefaultMain \o OtherStart)),
      Some(Array(<<4, 2>>, DefaultMain \o OtherStart)) }

\* np.stack((main_car.init_state, other_car.init_state))
Stack(m, o) == Array(<<2, 4>>, m \o o)

\* self.tf_controls.numpy() once the steps from seed i of this call are done
Controls(i, c) == [seed |-> i, call |-> c]

\* the state __init__ leaves, lines 111-138
Constructed ==
    /\ cache = <<>>
    /\ car_main = DefaultMain
    /\ car_other = DefaultOther
    /\ opc = "idle"
    /\ o_key = <<>>
    /\ o_args = NoneVal
    /\ o_i = 0
    /\ o_k = 0
    /\ best_loss = Inf
    /\ best_plan = NoneVal
    /\ best_init = -1
    /\ o_result = NoneVal
    /\ calls = 0
    /\ opt_steps = 0
    /\ loss_evals = 0
    /\ losses = <<>>

OptInit ==
    /\ n_opt_iters \in 0..MaxPlannerIters
    /\ n_seeds \in N_BASE_SEEDS..(N_BASE_SEEDS + MaxExtraSeeds)
    /\ Constructed

\* one optimizer that is never called
IdleOpt ==
    /\ n_opt_iters = 0
    /\ n_seeds = N_BASE_SEEDS
    /\ Constructed

\* a lookup that never finds the key
CacheMiss(key) == FALSE

\* (reward.tobytes(), start_state.tobytes()) in self.cache.keys()
CacheHit(key) == key \in DOMAIN cache

\* a store that does not look at memorize
StoreAlways(memorize) == TRUE

\* if memorize:
StoreRequested(memorize) == memorize

\* self.cache[key] = val
CacheStore(key, val) == [k \in DOMAIN cache \cup {key} |-> IF k = key THEN val ELSE cache[k]]

\* lines 180-197: the call up to the cache lookup and the start of the loop
MakeOptTraj ==
    /\ opc \in {"idle", "returned", "raised"}
    /\ calls < MaxCalls
    /\ \E reward \in RewardArgs, start_state \in StartArgs, memorize \in BOOLEAN :
          /\ o_args' = Some([reward |-> reward, start_state |-> start_state,
                             memorize |-> memorize])
          /\ calls' = calls + 1
          /\ opt_steps' = 0
          /\ loss_evals' = 0
          /\ losses' = <<>>
          /\ IF start_state # NoneVal /\ Val(start_state).shape # <<2, 4>>
             THEN \* assert start_state.shape == (2, 4)
                  /\ opc' = "raised"
                  /\ o_result' = NoneVal
                  /\ UNCHANGED <<car_main, car_other, o_key, o_i, o_k, best_loss, best_plan,
                                 best_init>>
             ELSE /\ IF start_state # NoneVal
                     THEN /\ car_main' = SubSeq(Val(start_state).data, 1, 4)
                          /\ car_other' = SubSeq(Val(start_state).data, 5, 8)
                     ELSE UNCHANGED <<car_main, car_other>>
                  /\ o_key' = <<tobytes(reward),
                               tobytes(IF start_state # NoneVal THEN Val(start_state)
                                       ELSE Stack(car_main, car_other))>>
                  /\ IF CacheHit(o_key')
                     THEN /\ o_result' = Some(cache[o_key'])
                          /\ opc' = "returned"
                          /\ UNCHANGED <<o_i, o_k, best_loss, best_plan, best_init>>
                     ELSE /\ o_result' = NoneVal
                          /\ best_loss' = Inf
                          /\ best_init' = -1
                          /\ best_plan' = NoneVal
                          /\ o_i' = 0
                          /\ o_k' = 0
                          /\ opc' = "optimize"
    /\ UNCHANGED <<n_opt_iters, n_seeds, cache, notOpt>>

\* line 203: one self.optim.minimize(loss, self.tf_controls)
OptimizerStep ==
    /\ opc = "optimize"
    /\ o_k < n_opt_iters
    /\ o_k' = o_k + 1
    /\ opt_steps' = opt_steps + 1
    /\ UNCHANGED <<n_opt_iters, n_seeds, cache, car_main, car_other, opc, o_key, o_args, o_i,
                   best_loss, best_plan, best_init, o_result, calls, loss_evals, losses,
                   notOpt>>

\* lines 207-212, and the step of the loop of line 198 to the next seed
EvalLoss ==
    /\ opc = "optimize"
    /\ o_k = n_opt_iters
    /\ \E current_loss \in LossValues :
          /\ loss_evals' = loss_evals + 1
          /\ losses' = Append(losses, current_loss)
          /\ IF LossLess(current_loss, best_loss)
             THEN /\ best_loss' = current_loss
                  /\ best_plan' = Some(Controls(o_i, calls))
                  /\ best_init' = o_i
             ELSE UNCHANGED <<best_loss, best_plan, best_init>>
    /\ IF o_i + 1 < n_seeds
       THEN /\ o_i' = o_i + 1
            /\ o_k' = 0
            /\ opc' = opc
       ELSE /\ opc' = "after_loop"
            /\ UNCHANGED <<o_i, o_k>>
    /\ UNCHANGED <<n_opt_iters, n_seeds, cache, car_main, car_other, o_key, o_args, o_result,
                   calls, opt_steps, notOpt>>

\* lines 214-222.  best_plan is assigned only at line 211; reading it unbound
\* at line 220 or 222 raises UnboundLocalError.  The locals end with the call.
Finish ==
    /\ opc = "after_loop"
    /\ IF ~(o_i > 0) \/ best_plan = NoneVal
       THEN /\ opc' = "raised"
            /\ UNCHANGED <<cache, o_result>>
       ELSE /\ cache' = IF StoreRequested(Val(o_args).memorize)
                        THEN CacheStore(o_key, [plan |-> Val(best_plan), loss |-> best_loss])
                        ELSE cache
            /\ o_result' = Some([plan |-> Val(best_plan), loss |-> best_loss])
            /\ opc' = "returned"
    /\ o_i' = 0
    /\ o_k' = 0
    /\ best_loss' = Inf
    /\ best_plan' = NoneVal
    /\ best_init' = -1
    /\ losses' = <<>>
    /\ UNCHANGED <<n_opt_iters, n_seeds, car_main, car_other, o_key, o_args, calls,
                   opt_steps, loss_evals, notOpt>>

NextOpt == MakeOptTraj \/ OptimizerStep \/ EvalLoss \/ Finish

\* ------------------------------------------------------------------------
\* Properties of TrajOptimizer.make_opt_traj
\* ------------------------------------------------------------------------
\* this step is the entry of a call of make_opt_traj
CallStarts == calls' = calls + 1

\* C4: a call with memorize=True that repeats the arguments of the call that
\* just returned (memorize=True) returns the very value of that call, which
\* is the cached one, without an optimizer step or a loss evaluation.
C4_SecondCallCached ==
    [][(CallStarts /\ opc = "returned" /\ o_args' = o_args /\ Val(o_args).memorize) =>
          /\ opc' = "returned"
          /\ o_result' = o_result
          /\ o_key' = o_key
          /\ o_result' = Some(cache[o_key])
          /\ opt_steps' = 0
          /\ loss_evals' = 0]_vars

\* a second or later call with memorize=True came back from the cache
C4_Witness ==
    /\ opc = "returned"
    /\ calls >= 2
    /\ Val(o_args).memorize
    /\ opt_steps = 0
    /\ loss_evals = 0
    /\ o_key \in DOMAIN cache
    /\ o_result = Some(cache[o_key])

\* C5: an entry appears only when a call with memorize=True that missed the
\* cache finishes, under the key of that call; a call with memorize=False
\* adds none; an entry is never removed and its value never changes.
C5_CacheLifecycle ==
    [][/\ \A k \in DOMAIN cache : k \in DOMAIN cache' /\ cache'[k] = cache[k]
       /\ DOMAIN cache' # DOMAIN cache =>
             /\ opc = "after_loop"
             /\ Val(o_args).memorize
             /\ o_key \notin DOMAIN cache
             /\ o_key[1] = Val(o_args).reward.data
             /\ DOMAIN cache' = DOMAIN cache \cup {o_key}]_vars

\* with an entry in the cache, a call with memorize=False missed the cache
\* and returned
C5_Witness ==
    /\ opc = "returned"
    /\ ~Val(o_args).memorize
    /\ DOMAIN cache # {}
    /\ o_key \notin DOMAIN cache
    /\ loss_evals = n_seeds

\* the earliest seed whose loss no other seed's loss is below
EarliestLowest(ls) ==
    CHOOSE i \in 0..(Len(ls) - 1) :
        /\ \A j \in 0..(Len(ls) - 1) : LossAtMost(ls[i + 1], ls[j + 1])
        /\ \A j \in 0..(i - 1) : ~LossAtMost(ls[j + 1], ls[i + 1])

NoNaN(ls) == \A j \in 1..Len(ls) : ls[j] # NaN

\* C6: a call that missed the cache has, after its loop, taken n_opt_iters
\* optimizer steps per seed and evaluated the loss once per seed, and it
\* returns the plan and loss of the seed with the lowest loss, the earliest
\* such seed on a tie (losses that compare: no nan among them).
C6_LowestLossSeedReturned ==
    [][(opc = "after_loop" /\ NoNaN(losses)) =>
          /\ opt_steps = n_opt_iters * n_seeds
          /\ loss_evals = n_seeds
          /\ Len(losses) = n_seeds
          /\ opc' = "returned"
          /\ LET b == EarliestLowest(losses)
             IN  o_result' = Some([plan |-> Controls(b, calls), loss |-> losses[b + 1]])]_vars

\* C7: when no seed's loss is below the initial best, the call still returns,
\* with the plan and loss of the last seed evaluated.
C7_NoImprovementReturnsLast ==
    [][(opc = "after_loop" /\ \A j \in 1..Len(losses) : ~LossLess(losses[j], Inf)) =>
          /\ opc' = "returned"
          /\ o_result' = Some([plan |-> Controls(n_seeds - 1, calls),
                               loss |-> losses[n_seeds]])]_vars

\* ------------------------------------------------------------------------
\* orient_normals: active/simulation_utils.py lines 24-54, utils.py lines 29-41
\* ------------------------------------------------------------------------
\* A 2-d array is its number of columns and its rows.
Array2(ncols, rows) == [ncols |-> ncols, rows |-> rows]

\* the outcome of a call: Raised (an assertion failed) or Returned(value)
Raised == <<>>
Returned(x) == <<x>>

OrientRows(d) ==
    IF d = 4 THEN { <<1, 0, 0, 0>>, <<2, -1, 0, 0>> }
    ELSE { <<1, 0, 0, 0, 1>>, <<2, -1, 0, 0, 1>> }
OrientNormalArgs ==
    UNION { { Array2(d, rows) : rows \in SeqsUpTo(OrientRows(d), MaxOrientRows) } : d \in {4, 5} }
PreferenceArgs == SeqsUpTo({-1, 0, 1}, MaxOrientRows)

\* assert_normals: two axes, and shape[1] == n_reward_features + int(use_equiv)
assert_normals(n, use_equiv) == n.ncols = N_FEATURES + (IF use_equiv THEN 1 ELSE 0)

\* (normals.T * preferences).T
ScaleRows(n, p) ==
    Array2(n.ncols, [k \in 1..Len(n.rows) |-> [c \in 1..Len(n.rows[k]) |-> n.rows[k][c] * p[k]]])

\* preferences * preferences
Square(p) == [k \in 1..Len(p) |-> p[k] * p[k]]

\* np.any in place of np.all at line 46
RescaleIfAny(p) ==
    IF \E k \in 1..Len(p) : p[k] = 0 \/ p[k] = 1
    THEN [k \in 1..Len(p) |-> p[k] * 2 - 1]
    ELSE p

\* lines 46-47: a 0/1 array becomes a -1/+1 array
Rescale(p) ==
    IF \A k \in 1..Len(p) : p[k] = 0 \/ p[k] = 1
    THEN [k \in 1..Len(p) |-> p[k] * 2 - 1]
    ELSE p

\* active/simulation_utils.py: orient_normals
orient_normals(n, p, use_equiv) ==
    IF ~assert_normals(n, use_equiv) THEN Raised
    ELSE IF Len(p) # Len(n.rows) THEN Raised
    ELSE LET q == Rescale(p)
         IN  IF ~(\A k \in 1..Len(q) : q[k] = 1 \/ q[k] = -1) THEN Raised
             ELSE IF ~assert_normals(ScaleRows(n, q), use_equiv) THEN Raised
             ELSE Returned(ScaleRows(n, q))

\* utils.py: orient_normals
utils_orient_normals(n, p, use_equiv) ==
    IF ~assert_normals(n, use_equiv) THEN Raised
    ELSE IF Len(p) # Len(n.rows) THEN Raised
    ELSE IF ~assert_normals(ScaleRows(n, p), use_equiv) THEN Raised
    ELSE Returned(ScaleRows(n, p))

CallOrient(impl, n, p, use_equiv) ==
    IF impl = "simulation_utils" THEN orient_normals(n, p, use_equiv)
    ELSE utils_orient_normals(n, p, use_equiv)

OrientInit ==
    /\ or_impl \in {"simulation_utils", "utils"}
    /\ or_normals \in OrientNormalArgs
    /\ or_preferences \in PreferenceArgs
    /\ or_use_equiv \in BOOLEAN
    /\ or_once = Raised
    /\ or_twice = Raised
    /\ or_squared = Raised
    /\ or_pc = "start"

IdleOrient ==
    /\ or_impl = "utils"
    /\ or_normals = Array2(4, <<>>)
    /\ or_preferences = <<>>
    /\ or_use_equiv = FALSE
    /\ or_once = Raised
    /\ or_twice = Raised
    /\ or_squared = Raised
    /\ or_pc = "idle"

orientArgs == <<or_impl, or_normals, or_preferences, or_use_equiv>>

\* orient_normals(n, p)
OrientOnce ==
    /\ or_pc = "start"
    /\ or_once' = CallOrient(or_impl, or_normals, or_preferences, or_use_equiv)
    /\ or_pc' = IF or_once' = Raised THEN "raised" ELSE "once"
    /\ UNCHANGED <<orientArgs, or_twice, or_squared, notOrient>>

\* orient_normals(orient_normals(n, p), p)
OrientAgain ==
    /\ or_pc = "once"
    /\ or_twice' = CallOrient(or_impl, Val(or_once), or_preferences, or_use_equiv)
    /\ or_pc' = "twice"
    /\ UNCHANGED <<orientArgs, or_once, or_squared, notOrient>>

\* orient_normals(n, p * p)
OrientSquared ==
    /\ or_pc = "twice"
    /\ or_squared' = CallOrient(or_impl, or_normals, Square(or_preferences), or_use_equiv)
    /\ or_pc' = "done"
    /\ UNCHANGED <<orientArgs, or_once, or_twice, notOrient>>

NextOrient == OrientOnce \/ OrientAgain \/ OrientSquared

\* ------------------------------------------------------------------------
\* Properties of orient_normals
\* ------------------------------------------------------------------------
ValidOrientArgs ==
    /\ or_normals.ncols = N_FEATURES + (IF or_use_equiv THEN 1 ELSE 0)
    /\ Len(or_preferences) = Len(or_normals.rows)

ZeroOne(p) == \A k \in 1..Len(p) : p[k] \in {0, 1}
PlusMinus(p) == \A k \in 1..Len(p) : p[k] \in {-1, 1}
HasZero(p) == \E k \in 1..Len(p) : p[k] = 0

\* row k of the normals times x
RowTimes(k, x) == [c \in 1..or_normals.ncols |-> or_normals.rows[k][c] * x]

OrientedBy(f(_)) ==
    /\ or_once # Raised
    /\ Val(or_once).ncols = or_normals.ncols
    /\ Len(Val(or_once).rows) = Len(or_normals.rows)
    /\ \A k \in 1..Len(or_normals.rows) :
          Val(or_once).rows[k] = RowTimes(k, f(or_preferences[k]))

AsGiven(x) == x
ZeroOneToSign(x) == IF x = 0 THEN -1 ELSE x

OrientCalled ==
    or_pc \in {"once", "raised"} /\ or_impl = "simulation_utils" /\ ValidOrientArgs

\* C8: orient_normals multiplies each normal by its preference, a 0/1 array
\* first mapped to -1/+1; a 0 preference is accepted only when use_equiv is
\* true and is then left as 0; a 0 in an array that is not 0/1-encoded is
\* rejected when use_equiv is false.
C8_OrientationRule ==
    OrientCalled =>
        /\ (ZeroOne(or_preferences) /\ ~(or_use_equiv /\ HasZero(or_preferences)))
               => OrientedBy(ZeroOneToSign)
        /\ PlusMinus(or_preferences) => OrientedBy(AsGiven)
        /\ (HasZero(or_preferences) /\ ~ZeroOne(or_preferences) /\ ~or_use_equiv)
               => or_once = Raised
        /\ (HasZero(or_preferences) /\ ~ZeroOne(or_preferences) /\ or_use_equiv)
               => OrientedBy(AsGiven)

OrientCompared == or_pc = "done" /\ ValidOrientArgs

\* C9 as stated: for every accepted preference array, in either encoding,
\* orient_normals(orient_normals(n, p), p) equals orient_normals(n, p * p).
C9_TwiceEqualsSquared ==
    OrientCompared => (or_twice # Raised /\ or_twice = or_squared)

\* C9: for arguments of valid shape, orienting twice equals orienting by
\* p * p for utils.orient_normals whatever p, and for
\* simulation_utils.orient_normals when p has no 0 (both then return n);
\* a 0/1-encoded p with a 0 gives n when applied twice and
\* orient_normals(n, p) when squared.
C9_TwiceEqualsSquaredNoZero ==
    /\ (or_pc \in {"once", "raised"} /\ ValidOrientArgs /\ PlusMinus(or_preferences))
           => or_pc = "once"
    /\ (OrientCompared /\ (or_impl = "utils" \/ ~HasZero(or_preferences)))
           => (or_twice # Raised /\ or_twice = or_squared)
    /\ (OrientCompared /\ or_impl = "simulation_utils" /\ PlusMinus(or_preferences))
           => or_twice = Returned(or_normals)
    /\ (OrientCompared /\ or_impl = "simulation_utils" /\ HasZero(or_preferences))
           => (or_twice = Returned(or_normals) /\ or_squared = or_once)

\* simulation_utils.orient_normals applied twice and by p * p, on a nonzero
\* normal with preference -1
C9_Witness ==
    /\ OrientCompared
    /\ or_impl = "simulation_utils"
    /\ \E k \in 1..Len(or_preferences) : or_preferences[k] = -1
    /\ or_twice = or_squared
    /\ or_twice # or_once

\* ------------------------------------------------------------------------
\* run_tests.py: make_gaussian_rewards, find_reward_boundary
\* ------------------------------------------------------------------------
BoundaryNormalVecs == { <<1, 0, 0, 0>>, <<0, 1, 0, 0>>, <<-1, 0, 0, 0>> }
TrueRewards == { <<1, 0, 0, 0>>, <<0, 1, 0, 0>>, <<1, 1, 0, 0>> }
\* what dist.rvs may draw, whatever the mean and the covariance
RawSamples == { <<2, 0, 0, 0>>, <<0, 3, 0, 0>>, <<-2, 0, 0, 0>> }

Abs(x) == IF x < 0 THEN -x ELSE x

\* normalize: each row over its L_2 norm; for a row with one nonzero entry
\* the norm is the absolute value of that entry
NormalizeRow(v) ==
    LET nrm == Abs(v[1]) + Abs(v[2]) + Abs(v[3]) + Abs(v[4])
    IN  [c \in 1..Len(v) |-> v[c] \div nrm]

\* make_gaussian_rewards(n_rewards, use_equiv=False, mean, cov): the arrays it
\* may return
make_gaussian_rewards(n) ==
    { [k \in 1..n |-> NormalizeRow(raw[k])] : raw \in [1..n -> RawSamples] }

\* assert_reward: unit norm (an integer vector has norm 1 iff its square is 1)
assert_reward(r) == Dot(r, r) = 1

\* normals[reward @ normals.T > epsilon]
Restrict(ns, reward, eps) ==
    MaskFrom(ns, [k \in 1..Len(ns) |-> Dot(reward, ns[k]) > eps], 1)

\* np.all(rewards @ normals.T > 0, axis=1)
Alignment(rs, ns) ==
    [r \in 1..Len(rs) |-> \A k \in 1..Len(ns) : Dot(rs[r], ns[k]) > 0]

CountTrue(bs) == Cardinality({ k \in 1..Len(bs) : bs[k] })

\* mean_agree > 0.55
AboveBand(al) == CountTrue(al) * 100 > BAND_HIGH * Len(al)
\* mean_agree < 0.45
BelowBand(al) == CountTrue(al) * 100 < BAND_LOW * Len(al)

\* rvs squeezes a single sample to one axis, which normalize rejects; the
\* model calls with two rewards or more
BoundaryInit ==
    /\ b_args \in [normals : SeqsUpTo(BoundaryNormalVecs, MaxBoundaryNormals),
                   n_rewards : 2..MaxNRewards,
                   reward : TrueRewards,
                   epsilon : {0, 1}]
    /\ b_normals = <<>>
    /\ b_rewards = <<>>
    /\ b_alignment = <<>>
    /\ cov_exp = 0
    /\ b_pc = "start"

IdleBoundary ==
    /\ b_args = [normals |-> <<>>, n_rewards |-> 2, reward |-> <<1, 0, 0, 0>>, epsilon |-> 0]
    /\ b_normals = <<>>
    /\ b_rewards = <<>>
    /\ b_alignment = <<>>
    /\ cov_exp = 0
    /\ b_pc = "idle"

\* lines 65-75
FindRewardBoundary ==
    /\ b_pc = "start"
    /\ IF ~(b_args.n_rewards > 0 /\ b_args.epsilon >= 0 /\ assert_reward(b_args.reward))
       THEN /\ b_pc' = "raised"
            /\ UNCHANGED <<b_normals, b_rewards, b_alignment, cov_exp>>
       ELSE /\ cov_exp' = 0
            /\ b_rewards' \in make_gaussian_rewards(b_args.n_rewards)
            /\ b_normals' = Restrict(b_args.normals, b_args.reward, b_args.epsilon)
            /\ b_alignment' = Alignment(b_rewards', b_normals')
            /\ b_pc' = "loop"
    /\ UNCHANGED <<b_args, notBoundary>>

\* lines 77-85: one pass of the while loop.  cov is 1.1 ** cov_exp; the model
\* keeps the exponent within -MaxCovExp..MaxCovExp, and what the sampler may
\* draw does not depend on it.
RescaleCov ==
    /\ b_pc = "loop"
    /\ AboveBand(b_alignment) \/ BelowBand(b_alignment)
    /\ cov_exp' = IF AboveBand(b_alignment)
                  THEN (IF cov_exp < MaxCovExp THEN cov_exp + 1 ELSE cov_exp)
                  ELSE (IF cov_exp > -MaxCovExp THEN cov_exp - 1 ELSE cov_exp)
    /\ b_rewards' \in make_gaussian_rewards(b_args.n_rewards)
    /\ b_normals' = Restrict(b_normals, b_args.reward, b_args.epsilon)
    /\ b_alignment' = Alignment(b_rewards', b_normals')
    /\ UNCHANGED <<b_args, b_pc, notBoundary>>

\* lines 87-90
ReturnBoundary ==
    /\ b_pc = "loop"
    /\ ~(AboveBand(b_alignment) \/ BelowBand(b_alignment))
    /\ b_pc' = IF Len(b_alignment) = b_args.n_rewards /\ Len(b_rewards) = b_args.n_rewards
               THEN "returned" ELSE "raised"
    /\ UNCHANGED <<b_args, b_normals, b_rewards, b_alignment, cov_exp, notBoundary>>

NextBoundary == FindRewardBoundary \/ RescaleCov \/ ReturnBoundary

\* the rescaled sample lands in the band
RescaleIntoBand == RescaleCov /\ ~(AboveBand(b_alignment') \/ BelowBand(b_alignment'))

\* ------------------------------------------------------------------------
\* Properties of find_reward_boundary
\* ------------------------------------------------------------------------
ValidBoundaryArgs ==
    b_args.n_rewards > 0 /\ b_args.epsilon >= 0 /\ assert_reward(b_args.reward)

InBand == ~(AboveBand(b_alignment) \/ BelowBand(b_alignment))

ReturnedInBand == b_pc = "returned" /\ InBand

\* C3: for a valid input find_reward_boundary returns after finitely many
\* rescaling steps, with the aligned fraction within [0.45, 0.55].
C3_BoundaryTerminates == ValidBoundaryArgs ~> ReturnedInBand

\* ------------------------------------------------------------------------
\* run_tests.py: run_test, eval_test, run_human_experiment
\* ------------------------------------------------------------------------
TestNormalRows(d) ==
    IF d = 4 THEN { <<1, 0, 0, 0>>, <<-1, 1, 0, 0>> }
    ELSE { <<1, 0, 0, 0, 0>>, <<0, 1, 0, 0, 1>> }

\* normal arrays of shape (k, 4) and (k, 5)
TestNormalArgs ==
    UNION { { Array2(d, rows) : rows \in SeqsUpTo(TestNormalRows(d), MaxTestNormals) } : d \in {4, 5} }

\* reward rows: unit vectors of length 4, a vector of norm sqrt(2), and a unit
\* vector of length 5
TestRewardRows == { <<1, 0, 0, 0>>, <<0, 1, 0, 0>>, <<1, 1, 0, 0>>, <<0, 1, 0, 0, 0>> }

\* reward arrays: at least one row, every row of the same length
TestRewardArgs ==
    { rs \in SeqsUpTo(TestRewardRows, MaxTestRewards) :
        /\ Len(rs) > 0
        /\ \A k \in 1..Len(rs) : Len(rs[k]) = Len(rs[1]) }

AlignedArgs == SeqsUpTo(BOOLEAN, MaxTestRewards)

HumanSamples == { -1, 1, 2 }

\* run_tests.assert_normals: shape[1] == N_FEATURES + int(use_equiv)
AssertNormals(n, use_equiv) == n.ncols = N_FEATURES + (IF use_equiv THEN 1 ELSE 0)

\* run_tests.assert_reward with its shape check
AssertReward(r, use_equiv) ==
    /\ Len(r) = N_FEATURES + (IF use_equiv THEN 1 ELSE 0)
    /\ Dot(r, r) = 1

\* predictions that accept a zero dot product
PredictionsNonNegative(rs, ns) ==
    [r \in 1..Len(rs) |-> \A k \in 1..Len(ns) : Dot(rs[r], ns[k]) >= 0]

\* np.all(np.dot(test_rewards, normals.T) > 0, axis=1)
Predictions(rs, ns) ==
    [r \in 1..Len(rs) |-> \A k \in 1..Len(ns) : Dot(rs[r], ns[k]) > 0]

\* run_test(normals, test_rewards, use_equiv); np.dot raises ValueError when
\* the row lengths differ
run_test(n, rs, use_equiv) ==
    IF ~AssertNormals(n, use_equiv) THEN Raised
    ELSE IF \E k \in 1..Len(rs) : Len(rs[k]) # n.ncols THEN Raised
    ELSE Returned(Predictions(rs, n.rows))

\* np.zeros(aligned.shape, dtype=bool)
NoneAligned(al) == [k \in 1..Len(al) |-> FALSE]

\* np.ones(aligned.shape, dtype=bool)
AllAligned(al) == [k \in 1..Len(al) |-> TRUE]

\* confusion_matrix(y_true, y_pred, labels=[False, True]): row = ground
\* truth, column = prediction
confusion_matrix(y_true, y_pred) ==
    LET Cell(t, p) == Cardinality({ k \in 1..Len(y_true) : y_true[k] = t /\ y_pred[k] = p })
    IN  << <<Cell(FALSE, FALSE), Cell(FALSE, TRUE)>>,
           <<Cell(TRUE, FALSE), Cell(TRUE, TRUE)>> >>

eval_test(n, rs, al, use_equiv) ==
    IF Len(rs) # Len(al) THEN Raised
    ELSE IF \E k \in 1..Len(rs) : ~AssertReward(rs[k], use_equiv) THEN Raised
    ELSE IF Len(n.rows) > 0
         THEN LET res == run_test(n, rs, use_equiv)
              IN  IF res = Raised THEN Raised
                  ELSE Returned([results |-> Val(res),
                                 confusion |-> confusion_matrix(al, Val(res))])
         ELSE Returned([results |-> AllAligned(al),
                        confusion |-> confusion_matrix(al, AllAligned(al))])

\* rows[:n] of python
SliceTo(rows, n) ==
    LET stop == IF n < 0
                THEN (IF Len(rows) + n > 0 THEN Len(rows) + n ELSE 0)
                ELSE (IF n < Len(rows) THEN n ELSE Len(rows))
    IN  SubSeq(rows, 1, stop)

\* lines 209-211: line 210 compares n_human_samples with normals.shape[0] and
\* discards the result, so the slice is taken with n_human_samples as given
HumanNormals(n, n_human_samples) == Array2(n.ncols, SliceTo(n.rows, n_human_samples))

\* factory.filter_halfplanes(normals=...): the retained rows and their indices
FactoryFilterResults(n) ==
    { [normals |-> Array2(n.ncols, Gather(n.rows, ci)), indices |-> ci] :
        ci \in KeptIndices(Len(n.rows)) }

NoConfusion == << <<0, 0>>, <<0, 0>> >>

TestInit ==
    /\ t_call \in { "eval_test", "run_human_experiment" }
    /\ t_normals \in TestNormalArgs
    /\ t_rewards \in TestRewardArgs
    /\ t_use_equiv \in BOOLEAN
    /\ t_aligned \in (IF t_call = "eval_test" THEN AlignedArgs ELSE { <<>> })
    /\ t_n_human_samples \in (IF t_call = "eval_test" THEN { 1 } ELSE HumanSamples)
    /\ t_passed = Array2(N_FEATURES, <<>>)
    /\ t_indices = <<>>
    /\ t_results = <<>>
    /\ t_confusion = NoConfusion
    /\ t_pc = "start"

IdleTest ==
    /\ t_call = "none"
    /\ t_normals = Array2(N_FEATURES, <<>>)
    /\ t_rewards = <<>>
    /\ t_use_equiv = FALSE
    /\ t_aligned = <<>>
    /\ t_n_human_samples = 1
    /\ t_passed = Array2(N_FEATURES, <<>>)
    /\ t_indices = <<>>
    /\ t_results = <<>>
    /\ t_confusion = NoConfusion
    /\ t_pc = "idle"

testArgs == <<t_call, t_normals, t_rewards, t_use_equiv, t_aligned, t_n_human_samples>>

\* eval_test, lines 100-118
EvalTest ==
    /\ t_pc = "start"
    /\ t_call = "eval_test"
    /\ LET out == eval_test(t_normals, t_rewards, t_aligned, t_use_equiv)
       IN  IF out = Raised
           THEN /\ t_pc' = "raised"
                /\ UNCHANGED <<t_results, t_confusion>>
           ELSE /\ t_pc' = "returned"
                /\ t_results' = Val(out).results
                /\ t_confusion' = Val(out).confusion
    /\ UNCHANGED <<testArgs, t_passed, t_indices, notTest>>

\* run_human_experiment, lines 209-224
RunHumanExperiment ==
    /\ t_pc = "start"
    /\ t_call = "run_human_experiment"
    /\ t_passed' = HumanNormals(t_normals, t_n_human_samples)
    /\ \E f \in FactoryFilterResults(t_passed') :
          /\ t_indices' = f.indices
          /\ LET res == run_test(f.normals, t_rewards, t_use_equiv)
             IN  IF res = Raised
                 THEN /\ t_pc' = "raised"
                      /\ t_results' = t_results
                 ELSE /\ t_pc' = "returned"
                      /\ t_results' = Val(res)
    /\ UNCHANGED <<testArgs, t_confusion, notTest>>

NextTest == EvalTest \/ RunHumanExperiment

\* ------------------------------------------------------------------------
\* Properties of eval_test and run_human_experiment
\* ------------------------------------------------------------------------
EvalDone == t_call = "eval_test" /\ t_pc \in { "returned", "raised" }

EquivColumns == IF t_use_equiv THEN 1 ELSE 0

\* the arguments pass the assertions of lines 104-107
ValidEvalArgs ==
    /\ Len(t_rewards) = Len(t_aligned)
    /\ \A k \in 1..Len(t_rewards) :
          /\ Len(t_rewards[k]) = N_FEATURES + EquivColumns
          /\ Dot(t_rewards[k], t_rewards[k]) = 1

\* number of rewards with ground truth t and prediction p
Counted(t, p) ==
    Cardinality({ k \in 1..Len(t_aligned) : t_aligned[k] = t /\ t_results[k] = p })

\* C14: eval_test with an empty filtered-normal set predicts every reward as
\* aligned: every ground-truth-unaligned reward is counted as predicted
\* aligned, every ground-truth-aligned reward as correctly aligned, and both
\* predicted-False cells are 0.
C14_EmptyTestAcceptsAll ==
    (EvalDone /\ ValidEvalArgs /\ Len(t_normals.rows) = 0) =>
        /\ t_pc = "returned"
        /\ Len(t_results) = Len(t_rewards)
        /\ \A k \in 1..Len(t_results) : t_results[k]
        /\ t_confusion[1][1] = 0
        /\ t_confusion[2][1] = 0
        /\ t_confusion[1][2] = Cardinality({ k \in 1..Len(t_aligned) : ~t_aligned[k] })
        /\ t_confusion[2][2] = Cardinality({ k \in 1..Len(t_aligned) : t_aligned[k] })

\* an empty test was evaluated on an aligned and an unaligned reward
C14_Witness ==
    /\ t_call = "eval_test"
    /\ t_pc = "returned"
    /\ Len(t_normals.rows) = 0
    /\ t_confusion[1][2] > 0
    /\ t_confusion[2][2] > 0

\* C15: eval_test with a non-empty filtered-normal set predicts a reward as
\* aligned iff its dot product with every filtered normal is strictly
\* positive, and returns the 2x2 matrix [ground truth][prediction], labels
\* ordered False then True, whose cells sum to the number of rewards.
C15_NonEmptyTestPredicts ==
    (EvalDone /\ ValidEvalArgs /\ Len(t_normals.rows) > 0
        /\ t_normals.ncols = N_FEATURES + EquivColumns) =>
        /\ t_pc = "returned"
        /\ Len(t_results) = Len(t_rewards)
        /\ \A k \in 1..Len(t_results) :
              t_results[k] <=>
                (\A j \in 1..Len(t_normals.rows) : Dot(t_rewards[k], t_normals.rows[j]) > 0)
        /\ t_confusion = << <<Counted(FALSE, FALSE), Counted(FALSE, TRUE)>>,
                            <<Counted(TRUE, FALSE), Counted(TRUE, TRUE)>> >>
        /\ t_confusion[1][1] + t_confusion[1][2] + t_confusion[2][1] + t_confusion[2][2]
              = Len(t_rewards)

\* a non-empty test was evaluated and rejected one reward while accepting another
C15_Witness ==
    /\ t_call = "eval_test"
    /\ t_pc = "returned"
    /\ Len(t_normals.rows) > 0
    /\ t_confusion[1][1] + t_confusion[2][1] > 0
    /\ t_confusion[1][2] + t_confusion[2][2] > 0

HumanDone == t_call = "run_human_experiment" /\ t_pc \in { "returned", "raised" }

\* C19: run_human_experiment with n_human_samples = -1 passes the full normal
\* array, last row included, to the filter pipeline.
C19_MinusOneUsesAll ==
    (HumanDone /\ t_n_human_samples = -1) => t_passed = t_normals

\* ------------------------------------------------------------------------
\* run_tests.py: load, make_experiments and the sweeps of gt and human
\* ------------------------------------------------------------------------
\* A dict is the set of its <<key, value>> items.
Keys(d) == { item[1] : item \in d }
Put(d, k, v) == { item \in d : item[1] # k } \cup { <<k, v>> }

\* epsilons lists: one margin, two margins, and a list naming a margin twice
SweepEpsilons == { <<0>>, <<1>>, <<0, 1>>, <<0, 0>> }
\* deltas is left at its default, [0.05]
SweepDeltas == << <<1, 20>> >>
SweepHumanSamples == { <<1>>, <<-1, 1>> }

\* itertools.product(epsilons, deltas, n_human_samples), in its order
RECURSIVE ProductFrom(_, _, _, _, _, _)
ProductFrom(es, ds, ns, i, j, k) ==
    IF i > Len(es) THEN <<>>
    ELSE IF j > Len(ds) THEN ProductFrom(es, ds, ns, i + 1, 1, 1)
    ELSE IF k > Len(ns) THEN ProductFrom(es, ds, ns, i, j + 1, 1)
    ELSE << <<es[i], ds[j], ns[k]>> >> \o ProductFrom(es, ds, ns, i, j, k + 1)

product(es, ds, ns) == ProductFrom(es, ds, ns, 1, 1, 1)

\* load(path, overwrite), lines 171-176
load(file, overwrite) ==
    IF overwrite THEN {}
    ELSE IF file # NoneVal THEN Val(file)
    ELSE {}

\* a generator that yields the whole grid whatever has been computed
make_experiments_all(es, ds, ns, overwrite, done) == product(es, ds, ns)

\* make_experiments, lines 274-288; done is the set handed in as experiments
make_experiments(es, ds, ns, overwrite, done) ==
    LET grid == product(es, ds, ns)
    IN  IF overwrite THEN grid
        ELSE MaskFrom(grid, [k \in 1..Len(grid) |-> ~(grid[k] \in done)], 1)

\* the loop of lines 406-423 / 510-525 over the results of the tasks, each
\* carrying the experiment it was given; v stands for the computed values
RECURSIVE Recorded(_, _, _, _)
Recorded(d, exps, v, i) ==
    IF i > Len(exps) THEN d ELSE Recorded(Put(d, exps[i], v), exps, v, i + 1)

SweepInit ==
    /\ s_cmd \in { "gt", "human" }
    /\ s_epsilons = <<0>>
    /\ s_human_samples = <<1>>
    /\ s_overwrite = FALSE
    /\ minimal_tests = {}
    /\ second_map = {}
    /\ experiments = <<>>
    /\ task = <<>>
    /\ disk_tests = NoneVal
    /\ disk_second = NoneVal
    /\ sweeps = 0
    /\ s_pc = "ready"

IdleSweep ==
    /\ s_cmd = "none"
    /\ s_epsilons = <<0>>
    /\ s_human_samples = <<1>>
    /\ s_overwrite = FALSE
    /\ minimal_tests = {}
    /\ second_map = {}
    /\ experiments = <<>>
    /\ task = <<>>
    /\ disk_tests = NoneVal
    /\ disk_second = NoneVal
    /\ sweeps = 0
    /\ s_pc = "idle"

\* gt lines 399-421, human lines 497-522: load both maps, make the
\* experiments and hand one task per experiment to the worker pool
StartSweep ==
    /\ s_pc \in { "ready", "returned", "raised" }
    /\ sweeps < MaxSweeps
    /\ \E es \in SweepEpsilons, ns \in SweepHumanSamples, ow \in BOOLEAN :
          /\ s_epsilons' = es
          /\ s_human_samples' = ns
          /\ s_overwrite' = ow
          /\ second_map' = load(disk_second, ow)
          /\ minimal_tests' = load(disk_tests, ow)
          /\ experiments' = make_experiments(es, SweepDeltas, ns, ow, Keys(minimal_tests'))
    /\ task' = [i \in 1..Len(experiments') |-> "running"]
    /\ sweeps' = sweeps + 1
    /\ s_pc' = "dispatched"
    /\ UNCHANGED <<s_cmd, disk_tests, disk_second, notSweep>>

\* run_gt_experiment / run_human_experiment returns in a worker
TaskReturns ==
    /\ s_pc = "dispatched"
    /\ \E i \in 1..Len(task) :
          /\ task[i] = "running"
          /\ task' = [task EXCEPT ![i] = "done"]
    /\ UNCHANGED <<s_cmd, s_epsilons, s_human_samples, s_overwrite, minimal_tests,
                   second_map, experiments, disk_tests, disk_second, sweeps, s_pc, notSweep>>

\* run_gt_experiment / run_human_experiment raises in a worker
TaskFails ==
    /\ s_pc = "dispatched"
    /\ \E i \in 1..Len(task) :
          /\ task[i] = "running"
          /\ task' = [task EXCEPT ![i] = "failed"]
    /\ UNCHANGED <<s_cmd, s_epsilons, s_human_samples, s_overwrite, minimal_tests,
                   second_map, experiments, disk_tests, disk_second, sweeps, s_pc, notSweep>>

\* Parallel(...)(...) re-raises the exception of a failed task: the loop body
\* and the two pickle.dump calls are not reached
SweepRaises ==
    /\ s_pc = "dispatched"
    /\ \E i \in 1..Len(task) : task[i] = "failed"
    /\ s_pc' = "raised"
    /\ UNCHANGED <<s_cmd, s_epsilons, s_human_samples, s_overwrite, minimal_tests,
                   second_map, experiments, task, disk_tests, disk_second, sweeps, notSweep>>

\* gt lines 406-426, human lines 510-528: every task returned; record the
\* results and dump both maps
SweepReturns ==
    /\ s_pc = "dispatched"
    /\ \A i \in 1..Len(task) : task[i] = "done"
    /\ minimal_tests' = Recorded(minimal_tests, experiments, sweeps, 1)
    /\ second_map' = Recorded(second_map, experiments, sweeps, 1)
    /\ disk_second' = Some(second_map')
    /\ disk_tests' = Some(minimal_tests')
    /\ s_pc' = "returned"
    /\ UNCHANGED <<s_cmd, s_epsilons, s_human_samples, s_overwrite, experiments, task,
                   sweeps, notSweep>>

NextSweep == StartSweep \/ TaskReturns \/ TaskFails \/ SweepRaises \/ SweepReturns

\* ------------------------------------------------------------------------
\* Properties of the sweeps
\* ------------------------------------------------------------------------
\* the (epsilon, delta, n_human_samples) combinations of a requested grid
GridOf(es, ns) ==
    { <<es[i], SweepDeltas[j], ns[k]>> :
        i \in 1..Len(es), j \in 1..Len(SweepDeltas), k \in 1..Len(ns) }

\* the items of a persisted map; a missing file holds none
Persisted(file) == IF file = NoneVal THEN {} ELSE Val(file)

Dispatched(exps) == { exps[i] : i \in 1..Len(exps) }

SweepStarts == s_pc # "dispatched" /\ s_pc' = "dispatched"
SweepCompletes == s_pc = "dispatched" /\ s_pc' = "returned"
SweepAborts == s_pc = "dispatched" /\ s_pc' = "raised"

SameSweepAgain ==
    /\ SweepStarts
    /\ s_pc = "returned"
    /\ s_epsilons' = s_epsilons
    /\ s_human_samples' = s_human_samples
    /\ ~s_overwrite'

\* C16: with overwrite false a sweep dispatches exactly the combinations of
\* the grid whose key is not in the persisted map, keeps every persisted entry,
\* and leaves every key of the grid persisted, so the same sweep run again
\* dispatches nothing and changes nothing; with overwrite true the whole grid
\* is dispatched and the maps start empty.
C16_SweepSkipsComputed ==
    [][/\ SweepStarts =>
            LET grid == GridOf(s_epsilons', s_human_samples')
            IN  IF s_overwrite'
                THEN /\ Dispatched(experiments') = grid
                     /\ minimal_tests' = {}
                     /\ second_map' = {}
                ELSE /\ Dispatched(experiments') = grid \ Keys(Persisted(disk_tests))
                     /\ minimal_tests' = Persisted(disk_tests)
                     /\ second_map' = Persisted(disk_second)
       /\ SweepCompletes =>
            /\ GridOf(s_epsilons, s_human_samples) \subseteq Keys(Persisted(disk_tests'))
            /\ GridOf(s_epsilons, s_human_samples) \subseteq Keys(Persisted(disk_second'))
            /\ ~s_overwrite =>
                  /\ Persisted(disk_tests) \subseteq Persisted(disk_tests')
                  /\ Persisted(disk_second) \subseteq Persisted(disk_second')
            /\ (~s_overwrite /\ experiments = <<>>) =>
                  /\ disk_tests' = disk_tests
                  /\ disk_second' = disk_second
       /\ SameSweepAgain => experiments' = <<>>]_vars

\* a later sweep without overwrite completed after dispatching part of its
\* grid, next to an entry that an earlier sweep had persisted for that grid
C16_Witness ==
    /\ s_pc = "returned"
    /\ ~s_overwrite
    /\ sweeps >= 2
    /\ Len(experiments) > 0
    /\ \E item \in Persisted(disk_tests) :
          /\ item[1] \in GridOf(s_epsilons, s_human_samples)
          /\ item[2] < sweeps

\* C17: when one task of a sweep fails, the failure propagates to the caller,
\* the results of the tasks that returned are still recorded in the persisted
\* maps, and the persisted maps are never left partially written.
C17_FailureLosesOnlyItsResult ==
    [][/\ (s_pc = "dispatched" /\ s_pc' # "dispatched"
            /\ \E i \in 1..Len(task) : task[i] = "failed") => s_pc' = "raised"
       /\ SweepAborts =>
            \A i \in 1..Len(task) :
                task[i] = "done" =>
                    /\ <<experiments[i], sweeps>> \in Persisted(disk_tests')
                    /\ <<experiments[i], sweeps>> \in Persisted(disk_second')
       /\ Keys(Persisted(disk_tests')) = Keys(Persisted(disk_second'))]_vars

\* ------------------------------------------------------------------------
\* Specifications
\* ------------------------------------------------------------------------
InitFilter == FilterInit /\ IdleOpt /\ IdleOrient /\ IdleBoundary /\ IdleTest /\ IdleSweep
SpecFilter == InitFilter /\ [][NextFilter]_vars

InitOpt == OptInit /\ IdleFilter /\ IdleOrient /\ IdleBoundary /\ IdleTest /\ IdleSweep
SpecOpt == InitOpt /\ [][NextOpt]_vars

InitOrient == OrientInit /\ IdleFilter /\ IdleOpt /\ IdleBoundary /\ IdleTest /\ IdleSweep
SpecOrient == InitOrient /\ [][NextOrient]_vars

\* The loop of find_reward_boundary keeps running while it can, and the
\* sampler, asked again and again, sooner or later draws a sample in the band
\* whenever one exists.
InitBoundary == BoundaryInit /\ IdleFilter /\ IdleOpt /\ IdleOrient /\ IdleTest /\ IdleSweep
FairSpecBoundary ==
    /\ InitBoundary
    /\ [][NextBoundary]_vars
    /\ WF_vars(NextBoundary)
    /\ SF_vars(RescaleIntoBand)

InitTest ==
    TestInit /\ IdleFilter /\ IdleOpt /\ IdleOrient /\ IdleBoundary /\ IdleSweep
SpecTest == InitTest /\ [][NextTest]_vars

InitSweep ==
    SweepInit /\ IdleFilter /\ IdleOpt /\ IdleOrient /\ IdleBoundary /\ IdleTest
SpecSweep == InitSweep /\ [][NextSweep]_vars

====
